---- MODULE Spec2Model ----
(***************************************************************************)
(* Model of src/api.py: the getAir REST client.                            *)
(*                                                                         *)
(* The client is single-threaded and blocking.  A public operation is      *)
(* started by a Call* action, which records the operation and its          *)
(* arguments in `pending`.  Each HTTP exchange the operation performs is   *)
(* answered by one Respond step, which appends the backend's response to   *)
(* pending.trace.  The operation itself is a function of the state at the  *)
(* call and of the responses received (Outcome): it is either still        *)
(* blocked on an exchange, or finished, and then Return commits all its    *)
(* effects on the objects' fields in one step and hands control back to    *)
(* the caller.                                                             *)
(*                                                                         *)
(* Python values are records of one shape (Val), so that any two of them   *)
(* can be compared: None, an opaque scalar, a string of characters, or a   *)
(* tagged byte buffer {"type": "Buffer", "data": [...]}.                   *)
(***************************************************************************)
EXTENDS Integers, Sequences, FiniteSets, TLC

VARIABLES api, devs, credentials, pending, calls, exchanges

vars == <<api, devs, credentials, pending, calls, exchanges>>

----------------------------------------------------------------------------
(* Bounds of the model *)

\* nesting depth of _request_get/_request_put at which Python raises RecursionError
RecursionLimit == 2
\* number of statements of the caller (operations started, flags assigned)
\* and of changes of the credentials file in a behaviour
MaxCalls == 3
\* number of answers of the backend in a behaviour
MaxExchanges == 6

----------------------------------------------------------------------------
(* ResponseCode *)

OK == 200
NO_CONTENT == 204
UNAUTHORIZED == 401
INTERNAL_SERVER_ERROR == 500

----------------------------------------------------------------------------
(* Python values *)

None == [type |-> "None", str |-> <<>>, bytes |-> <<>>]
Str(chars) == [type |-> "str", str |-> chars, bytes |-> <<>>]
Buffer(data) == [type |-> "Buffer", str |-> <<>>, bytes |-> data]

\* the values a caller passes to the setters
Values == {Str(<<"v1">>), Str(<<"v2">>)}

\* a token: None, a session token, or the API token issued for a session token
NoToken == [v |-> "None", for |-> ""]
SessionToken(s) == [v |-> s, for |-> ""]
ApiToken(session) == [v |-> "api", for |-> session.v]
\* the auth endpoint issues a session token other than the one the client holds
FreshSession(held) == IF held = SessionToken("s1") THEN SessionToken("s2") ELSE SessionToken("s1")

\* a JSON object is a function from keys to values; a key or an attribute
\* name is the sequence of its words and separators
EmptyObj == <<>>
NoneJson == [isNone |-> TRUE, obj |-> EmptyObj]
Json(obj) == [isNone |-> FALSE, obj |-> obj]
Truthy(json) == ~json.isNone /\ DOMAIN json.obj # {}

Join(words, sep) == [i \in 1..(2 * Len(words) - 1) |-> IF i % 2 = 1 THEN words[(i + 1) \div 2] ELSE sep]
\* str.replace(old, new) on a name
Replace(s, old, new) == [i \in DOMAIN s |-> IF s[i] = old THEN new ELSE s[i]]
\* f"{number}" for a time-profile index
Decimal == <<"1", "2", "3", "4", "5", "6", "7", "8", "9", "10">>

----------------------------------------------------------------------------
(* Hexadecimal device identifiers *)

HexDigits == <<"0", "1", "2", "3", "4", "5", "6", "7", "8", "9", "A", "B", "C", "D", "E", "F">>
LowerHex == <<"0", "1", "2", "3", "4", "5", "6", "7", "8", "9", "a", "b", "c", "d", "e", "f">>
IsHex(c) == \E i \in 1..16 : HexDigits[i] = c \/ LowerHex[i] = c
HexVal(c) == (CHOOSE i \in 1..16 : HexDigits[i] = c \/ LowerHex[i] = c) - 1
\* str.upper() on a string of characters
Upper(s) == [i \in DOMAIN s |-> IF \E k \in 11..16 : LowerHex[k] = s[i] THEN HexDigits[CHOOSE k \in 11..16 : LowerHex[k] = s[i]] ELSE s[i]]
\* [int(device_id[i:i+2],16) for i in range(0,len(device_id),2)]
Chunks(s) == [k \in 1..((Len(s) + 1) \div 2) |-> SubSeq(s, 2 * k - 1, IF 2 * k <= Len(s) THEN 2 * k ELSE Len(s))]
IntHex(chunk) == IF Len(chunk) = 2 THEN 16 * HexVal(chunk[1]) + HexVal(chunk[2]) ELSE HexVal(chunk[1])
ParseHex(s) == [k \in DOMAIN Chunks(s) |-> IntHex(Chunks(s)[k])]
\* ''.join(f'{b:02x}' for b in data).upper()
FormatHex(data) == [i \in 1..(2 * Len(data)) |-> IF i % 2 = 1 THEN HexDigits[(data[(i + 1) \div 2] \div 16) + 1] ELSE HexDigits[(data[i \div 2] % 16) + 1]]

----------------------------------------------------------------------------
(* Device._System and Device._Zone: the attribute names *)

TimeProfileAttr(number, what) == Join(<<"time", "profile", Decimal[number], what>>, "_")
TimeProfileAttrs == {TimeProfileAttr(i, what) : i \in 1..10, what \in {"name", "data"}}
SystemScalarAttrs == {Join(<<"system", "type">>, "_"), Join(<<"system", "version">>, "_"), Join(<<"system", "id">>, "_"), Join(<<"num", "zones">>, "_"), <<"runtime">>, <<"modelock">>, <<"notification">>, Join(<<"notify", "time">>, "_"), <<"humidity">>, Join(<<"air", "pressure">>, "_"), <<"temperature">>, Join(<<"indoor", "air", "quality">>, "_"), Join(<<"iaq", "accuracy">>, "_"), Join(<<"fw", "app", "version">>, "_"), Join(<<"fw", "app", "version", "str">>, "_"), Join(<<"boot", "time">>, "_")}
SystemAttrs == SystemScalarAttrs \cup TimeProfileAttrs
ZoneAttrs == {<<"name">>, <<"runtime">>, Join(<<"last", "filter", "change">>, "_"), <<"speed">>, Join(<<"zone", "index">>, "_"), <<"mode">>, Join(<<"mode", "deadline">>, "_"), Join(<<"target", "temp">>, "_"), Join(<<"target", "hmdty", "level">>, "_"), Join(<<"auto", "mode", "voc">>, "_"), Join(<<"auto", "mode", "silent">>, "_"), <<"humidity">>, <<"temperature">>, Join(<<"hmdty", "outdoors">>, "_"), Join(<<"temp", "outdoors">>, "_"), Join(<<"time", "profile">>, "_")}

system_id == Join(<<"system", "id">>, "_")

_System == [a \in SystemAttrs |-> None]
_Zone == [a \in ZoneAttrs |-> None]

----------------------------------------------------------------------------
(* Results of the program's functions.  A function either returns (st =    *)
(* "ok", ret its value), raises (st = "raise", ret the exception's name)   *)
(* or is blocked on an HTTP exchange that has not been answered yet.  w is *)
(* the state it leaves: the objects' fields, the credentials file, the     *)
(* responses not consumed yet and the log of what this call has done.      *)

Ok(w, v) == [st |-> "ok", ret |-> v, w |-> w]
Raise(w, e) == [st |-> "raise", ret |-> e, w |-> w]

\* a response of the backend, or a RequestException of the transport
Response(code, status, token, obj) == [exc |-> "", status_code |-> code, status |-> status, token |-> token, obj |-> obj]
RequestException == [exc |-> "RequestException", status_code |-> 0, status |-> "", token |-> NoToken, obj |-> EmptyObj]
NoResponse == [exc |-> "pending", status_code |-> 0, status |-> "", token |-> NoToken, obj |-> EmptyObj]

\* an entry of the log: the function acting, the request it sends and the
\* answer.  auth is the token of the Authorization header, sess the
\* sessionToken parameter of the token request; for the other requests sess
\* notes the session token the client holds when it sends them
Event(fn, url, auth, sess, data, depth) == [fn |-> fn, url |-> url, auth |-> auth, sess |-> sess, data |-> data, depth |-> depth, resp |-> NoResponse]

\* requests.get / requests.post / requests.put: a URL without a scheme
\* ("None...") raises MissingSchema, a RequestException, and sends nothing
Http(w, e) ==
  IF e.url[1] = "None" THEN Ok(w, RequestException)
  ELSE IF w.trace = <<>> THEN [st |-> "blocked", ret |-> NoResponse, w |-> [w EXCEPT !.log = Append(@, e)]]
  ELSE Ok([w EXCEPT !.trace = Tail(@), !.log = Append(@, [e EXCEPT !.resp = Head(w.trace)])], Head(w.trace))

\* r is the result of a call; Then(r) is the rest of the calling function.
\* The caller goes on when the call returned, and is left by what it raised
\* (or is blocked with it).
Bind(r, Then(_)) == IF r.st = "ok" THEN Then(r) ELSE r
\* the same inside try: ... except Exception: return False
TryBind(r, Then(_)) == IF r.st = "ok" THEN Then(r) ELSE IF r.st = "raise" THEN Ok(r.w, FALSE) ELSE r

----------------------------------------------------------------------------
(* class API *)

API__init__ == [AUTO_RECONNECT |-> TRUE, _session_token |-> NoToken, _api_token |-> NoToken, _auth_url |-> "None", _api_url |-> "None", _devices |-> <<>>]

\* returns TRUE for the credentials dictionary, FALSE for {}
_load_credentials(w) ==
  IF w.credentials = "ok"
  THEN Ok([w EXCEPT !.api._auth_url = "auth_url", !.api._api_url = "api_url"], TRUE)
  ELSE Ok(w, FALSE)

_get_session_token(w) ==
  Bind(_load_credentials(w), LAMBDA c :
    IF ~c.ret THEN Raise(c.w, "KeyError")
    ELSE Bind(Http(c.w, Event("_get_session_token", <<c.w.api._auth_url>>, NoToken, c.w.api._session_token, EmptyObj, 0)), LAMBDA h :
      IF h.ret.exc # "" THEN Ok(h.w, NoToken)
      ELSE IF h.ret.status_code = OK
        THEN IF h.ret.status = "SUCCESS"
             THEN Ok([h.w EXCEPT !.api._session_token = h.ret.token], h.ret.token)
             ELSE Ok(h.w, NoToken)
        ELSE Ok(h.w, NoToken)))

_get_api_token(w) ==
  IF w.api._api_url = "None" THEN Raise(w, "TypeError")
  ELSE Bind(Http(w, Event("_get_api_token", <<w.api._api_url, "iam/token/">>, NoToken, w.api._session_token, EmptyObj, 0)), LAMBDA h :
    IF h.ret.exc # "" THEN Ok(h.w, NoToken)
    ELSE IF h.ret.status_code = OK
      THEN IF h.ret.token # NoToken
           THEN Ok([h.w EXCEPT !.api._api_token = h.ret.token], h.w.api._session_token)
           ELSE Ok(h.w, NoToken)
      ELSE Ok(h.w, NoToken))

\* returns TRUE for self, FALSE for None
connect(w) ==
  Bind(_get_session_token([w EXCEPT !.log = Append(@, Event("connect", <<"">>, NoToken, NoToken, EmptyObj, 0))]), LAMBDA s :
    IF s.ret = NoToken THEN Ok(s.w, FALSE)
    ELSE Bind(_get_api_token(s.w), LAMBDA a :
      IF a.ret = NoToken THEN Ok(a.w, FALSE) ELSE Ok(a.w, TRUE)))

\* a GET that reconnects on every 401, whatever AUTO_RECONNECT says, and
\* gives up after it: what C11_NoReconnectWhenDisabled must tell apart from
\* _request_get
_request_get_always(w, path, depth) ==
  Bind(Http(w, Event("_request_get", <<w.api._api_url>> \o path, w.api._api_token, w.api._session_token, EmptyObj, depth)), LAMBDA h :
    IF h.ret.exc # "" THEN Ok(h.w, NoneJson)
    ELSE IF h.ret.status_code = OK THEN Ok(h.w, Json(h.ret.obj))
    ELSE IF h.ret.status_code = UNAUTHORIZED THEN Bind(connect(h.w), LAMBDA c : Ok(c.w, NoneJson))
    ELSE Ok(h.w, NoneJson))

RECURSIVE _request_get(_, _, _)
_request_get(w, path, depth) ==
  IF depth >= RecursionLimit THEN Raise(w, "RecursionError")
  ELSE Bind(Http(w, Event("_request_get", <<w.api._api_url>> \o path, w.api._api_token, w.api._session_token, EmptyObj, depth)), LAMBDA h :
    IF h.ret.exc # "" THEN Ok(h.w, NoneJson)
    ELSE IF h.ret.status_code = OK THEN Ok(h.w, Json(h.ret.obj))
    ELSE IF h.ret.status_code = UNAUTHORIZED /\ h.w.api.AUTO_RECONNECT
      THEN Bind(connect(h.w), LAMBDA c :
             IF c.ret THEN _request_get(c.w, path, depth + 1) ELSE Ok(c.w, NoneJson))
    ELSE Ok(h.w, NoneJson))

RECURSIVE _request_put(_, _, _, _)
_request_put(w, path, data, depth) ==
  IF depth >= RecursionLimit THEN Raise(w, "RecursionError")
  ELSE Bind(Http(w, Event("_request_put", <<w.api._api_url>> \o path, w.api._api_token, w.api._session_token, data, depth)), LAMBDA h :
    IF h.ret.exc # "" THEN Ok(h.w, NoneJson)
    ELSE IF h.ret.status_code = OK THEN Ok(h.w, Json(h.ret.obj))
    ELSE IF h.ret.status_code = NO_CONTENT THEN Ok(h.w, NoneJson)
    ELSE IF h.ret.status_code = UNAUTHORIZED /\ h.w.api.AUTO_RECONNECT
      THEN Bind(connect(h.w), LAMBDA c :
             IF c.ret THEN _request_put(c.w, path, data, depth + 1) ELSE Ok(c.w, NoneJson))
    ELSE Ok(h.w, NoneJson))

----------------------------------------------------------------------------
(* class Device *)

\* the property device_id, as the characters an f-string renders
device_id(dev) ==
  IF dev._system[system_id].type = "str" THEN dev._system[system_id].str
  ELSE IF dev._system[system_id].type = "Buffer" THEN FormatHex(dev._system[system_id].bytes)
  ELSE <<"None">>

SystemPath(dev) == <<"devices/">> \o device_id(dev) \o <<"/services/System">>
ZoneFetchPath(dev) == <<"devices/", "1", ".">> \o device_id(dev) \o <<"/services/Zone">>
ZonePushPath(dev) == <<"devices/">> \o device_id(dev) \o <<"/services/Zone">>

\* a merge that resets the attributes the response leaves out: what
\* C15_PartialMerge must tell apart from Merge
Merge_reset(service, data) == [attr \in DOMAIN service |-> IF Replace(attr, "_", "-") \in DOMAIN data THEN data[Replace(attr, "_", "-")] ELSE None]

\* for attr in service.__dict__: key = attr.replace("_","-"); if key in data: setattr
Merge(service, data) == [attr \in DOMAIN service |-> IF Replace(attr, "_", "-") \in DOMAIN data THEN data[Replace(attr, "_", "-")] ELSE service[attr]]

fetch(w, d) ==
  TryBind(_request_get(w, SystemPath(w.devs[d]), 0), LAMBDA g :
    IF ~Truthy(g.ret) THEN Ok(g.w, FALSE)
    ELSE TryBind(_request_get([g.w EXCEPT !.devs[d]._system = Merge(@, g.ret.obj)], ZoneFetchPath([g.w.devs[d] EXCEPT !._system = Merge(@, g.ret.obj)]), 0), LAMBDA z :
      IF ~Truthy(z.ret) THEN Ok(z.w, FALSE)
      ELSE Ok([z.w EXCEPT !.devs[d]._zone = Merge(@, z.ret.obj)], TRUE)))

\* if len(self._system_changed): resp1 = self._api._request_put(..); self._system_changed.clear()
PushSystem(w, d) ==
  IF DOMAIN w.devs[d]._system_changed # {}
  THEN Bind(_request_put(w, SystemPath(w.devs[d]), w.devs[d]._system_changed, 0), LAMBDA p :
         Ok([p.w EXCEPT !.devs[d]._system_changed = EmptyObj, !.devs[d].hist_system = EmptyObj], TRUE))
  ELSE Ok(w, TRUE)

\* a push of the zone group that forgets to clear the change set: what
\* C8_PushFlushes must tell apart from PushZone
PushZone_kept(w, d) ==
  IF DOMAIN w.devs[d]._zone_changed # {}
  THEN Bind(_request_put(w, ZonePushPath(w.devs[d]), w.devs[d]._zone_changed, 0), LAMBDA p : Ok(p.w, TRUE))
  ELSE Ok(w, TRUE)

\* if len(self._zone_changed): resp2 = self._api._request_put(..); self._zone_changed.clear()
PushZone(w, d) ==
  IF DOMAIN w.devs[d]._zone_changed # {}
  THEN Bind(_request_put(w, ZonePushPath(w.devs[d]), w.devs[d]._zone_changed, 0), LAMBDA p :
         Ok([p.w EXCEPT !.devs[d]._zone_changed = EmptyObj, !.devs[d].hist_zone = EmptyObj], TRUE))
  ELSE Ok(w, TRUE)

\* a push without the try/except around the PUTs: what
\* C19_PushFalseOnlyOnRaise must tell apart from push
push_unguarded(w, d) ==
  Bind(PushSystem(w, d), LAMBDA p1 :
    Bind(PushZone(p1.w, d), LAMBDA p2 : Ok(p2.w, TRUE)))

push(w, d) ==
  TryBind(PushSystem(w, d), LAMBDA p1 :
    TryBind(PushZone(p1.w, d), LAMBDA p2 : Ok(p2.w, TRUE)))

\* an update that fetches whatever push() returned: what
\* C18_UpdateShortCircuits must tell apart from update
update_fetch(w, d) ==
  Bind(push(w, d), LAMBDA p : fetch(p.w, d))

update(w, d) ==
  Bind(push(w, d), LAMBDA p : IF p.ret THEN fetch(p.w, d) ELSE Ok(p.w, FALSE))

\* dict[key] = value
Put(dict, key, value) == [k \in DOMAIN dict \cup {key} |-> IF k = key THEN value ELSE dict[k]]

\* a change set that keeps the first value recorded under a key: what
\* C7_OneEntryPerAttribute must tell apart from Record
Record_first(w, d, service, key, value) ==
  IF service = "_System"
  THEN [w EXCEPT !.devs[d]._system_changed = IF key \in DOMAIN @ THEN @ ELSE Put(@, key, value)]
  ELSE [w EXCEPT !.devs[d]._zone_changed = IF key \in DOMAIN @ THEN @ ELSE Put(@, key, value)]

\* self._system_changed[key] = value / self._zone_changed[key] = value
Record(w, d, service, key, value) ==
  IF service = "_System"
  THEN [w EXCEPT !.devs[d]._system_changed = Put(@, key, value)]
  ELSE [w EXCEPT !.devs[d]._zone_changed = Put(@, key, value)]

_key_changed(w, d, service, key, value) ==
  IF service \notin {"_System", "_Zone"} THEN Ok(w, FALSE)
  ELSE IF w.devs[d].AUTOSET THEN push(Record(w, d, service, key, value), d)
  ELSE Ok(Record(w, d, service, key, value), TRUE)

\* the setters of the zone properties: the attribute each assigns and the
\* key it hands to _key_changed
ZoneSetters == {"name", "speed", "mode", "mode_deadline", "target_temp", "target_hmdty_level", "auto_mode_voc", "auto_mode_silent", "active_time_profile", "last_filter_change"}
SetterAttr(prop) ==
  CASE prop = "name" -> <<"name">>
    [] prop = "speed" -> <<"speed">>
    [] prop = "mode" -> <<"mode">>
    [] prop = "mode_deadline" -> Join(<<"mode", "deadline">>, "_")
    [] prop = "target_temp" -> Join(<<"target", "temp">>, "_")
    [] prop = "target_hmdty_level" -> Join(<<"target", "hmdty", "level">>, "_")
    [] prop = "auto_mode_voc" -> Join(<<"auto", "mode", "voc">>, "_")
    [] prop = "auto_mode_silent" -> Join(<<"auto", "mode", "silent">>, "_")
    [] prop = "active_time_profile" -> Join(<<"time", "profile">>, "_")
    [] prop = "last_filter_change" -> Join(<<"last", "filter", "change">>, "_")
SetterKey(prop) ==
  CASE prop = "name" -> <<"name">>
    [] prop = "speed" -> <<"speed">>
    [] prop = "mode" -> <<"mode">>
    [] prop = "mode_deadline" -> Join(<<"mode", "deadline">>, "-")
    [] prop = "target_temp" -> Join(<<"target", "temp">>, "-")
    [] prop = "target_hmdty_level" -> Join(<<"target", "hmdty", "level">>, "-")
    [] prop = "auto_mode_voc" -> Join(<<"auto", "mode", "voc">>, "-")
    [] prop = "auto_mode_silent" -> Join(<<"auto", "mode", "silent">>, "-")
    [] prop = "active_time_profile" -> Join(<<"time", "profile">>, "-")
    [] prop = "last_filter_change" -> Join(<<"last", "filter", "change">>, "-")

\* @<prop>.setter; the setter returns nothing, whatever _key_changed returns
setter(w, d, prop, value) ==
  _key_changed([w EXCEPT !.devs[d]._zone[SetterAttr(prop)] = value, !.devs[d].hist_zone = Put(@, SetterAttr(prop), value)], d, "_Zone", SetterKey(prop), value)

set_time_profile_name(w, d, number, value) ==
  IF number < 1 \/ number > 10 THEN Ok(w, FALSE)
  ELSE _key_changed([w EXCEPT !.devs[d]._system[TimeProfileAttr(number, "name")] = value, !.devs[d].hist_system = Put(@, TimeProfileAttr(number, "name"), value)], d, "_System", TimeProfileAttr(number, "name"), value)

\* len(list) is the length of the builtin type list: a TypeError, before
\* anything is assigned
set_time_profile_data(w, d, number, value) ==
  IF number < 1 \/ number > 10 THEN Ok(w, FALSE)
  ELSE Raise(w, "TypeError")

\* the empty list []
EmptyList == [type |-> "list", str |-> <<>>, bytes |-> <<>>]

\* a getter that answers an index out of range with None: what
\* C20_OutOfRangeIsNeutral must tell apart from get_time_profile_name
get_time_profile_name_none(w, d, number) ==
  IF number < 1 \/ number > 10 THEN Ok(w, None)
  ELSE Ok(w, w.devs[d]._system[TimeProfileAttr(number, "name")])

get_time_profile_name(w, d, number) ==
  IF number < 1 \/ number > 10 THEN Ok(w, Str(<<>>))
  ELSE Ok(w, w.devs[d]._system[TimeProfileAttr(number, "name")])

get_time_profile_data(w, d, number) ==
  IF number < 1 \/ number > 10 THEN Ok(w, EmptyList)
  ELSE Ok(w, w.devs[d]._system[TimeProfileAttr(number, "data")])

\* hist_system and hist_zone are history variables: for each attribute a
\* setter has assigned since the group's change set was last cleared, the
\* value of the latest assignment.  hist_returned is a history variable too:
\* the identifier get_device() has returned this handle for (<<>>: none)
NewDevice == [AUTOSET |-> FALSE, _system |-> _System, _zone |-> _Zone, _system_changed |-> EmptyObj, _zone_changed |-> EmptyObj, hist_system |-> EmptyObj, hist_zone |-> EmptyObj, hist_returned |-> <<>>]

\* Device(device_id, api): int(.., 16) raises ValueError on a character that
\* is no hexadecimal digit; the constructor ends with self.fetch()
Device__init__(w, id) ==
  IF \E i \in DOMAIN id : ~IsHex(id[i]) THEN Raise(w, "ValueError")
  ELSE Bind(fetch([w EXCEPT !.devs = Append(@, [NewDevice EXCEPT !._system[system_id] = Buffer(ParseHex(id))])], Len(w.devs) + 1), LAMBDA f : Ok(f.w, TRUE))

----------------------------------------------------------------------------
(* class API: the devices of the account.  A handle is the index of a      *)
(* Device object in devs; self._devices is a list of handles, 0 stands for *)
(* None.  The device list of the backend is a JSON array of objects; its   *)
(* entry i is the keys <<i, ...>> of the body.                             *)

EntryKey(i) == <<Decimal[i], "deviceIdentifier">>
EntryCount(obj) == Cardinality({k[1] : k \in DOMAIN obj})
\* entry.get("deviceIdentifier", "")
Mac(obj, i) == IF EntryKey(i) \in DOMAIN obj THEN obj[EntryKey(i)].str ELSE <<>>

\* for entry in response: if len(mac) != 12: pass / else: self._devices.append(Device(device_id=mac,api=self))
RECURSIVE AppendDevices(_, _, _)
AppendDevices(w, obj, i) ==
  IF i > EntryCount(obj) THEN Ok(w, TRUE)
  ELSE IF Len(Mac(obj, i)) # 12 THEN AppendDevices(w, obj, i + 1)
  ELSE Bind(Device__init__(w, Mac(obj, i)), LAMBDA dv :
         AppendDevices([dv.w EXCEPT !.api._devices = Append(@, Len(dv.w.devs))], obj, i + 1))

get_devices(w) ==
  Bind(_request_get(w, <<"devices/">>, 0), LAMBDA g :
    IF ~Truthy(g.ret) THEN Ok(g.w, <<>>)
    ELSE Bind(AppendDevices(g.w, g.ret.obj, 1), LAMBDA a : Ok(a.w, a.w.api._devices)))

\* deviceID.replace(":","").upper()
Normalize(deviceID) == Upper(SelectSeq(deviceID, LAMBDA c : c # ":"))
\* for device in devices: if device.device_id == deviceID: return device
Find(w, devices, deviceID) ==
  IF \E i \in DOMAIN devices : device_id(w.devs[devices[i]]) = deviceID
  THEN devices[CHOOSE i \in DOMAIN devices : device_id(w.devs[devices[i]]) = deviceID /\ \A j \in 1..(i - 1) : device_id(w.devs[devices[j]]) # deviceID]
  ELSE 0
Returned(w, device, deviceID) ==
  IF device = 0 THEN Ok(w, 0) ELSE Ok([w EXCEPT !.devs[device].hist_returned = deviceID], device)

get_device(w, deviceID) ==
  Bind(get_devices(w), LAMBDA g : Returned(g.w, Find(g.w, g.ret, Normalize(deviceID)), Normalize(deviceID)))

----------------------------------------------------------------------------
(* The caller and the backend *)

\* the identifiers a caller constructs a Device with
DeviceIds == {<<"0", "0", "1", "A", "2", "B", "3", "C", "4", "D", "5", "E">>}
\* the time-profile indices a caller passes
Numbers == {0, 1, 10, 11}

\* the identifiers a caller asks get_device() for: a device of the account,
\* with and without separators
Colons(id) == [i \in 1..17 |-> IF i % 3 = 0 THEN ":" ELSE id[i - (i \div 3)]]
LookupIds == DeviceIds \cup {Colons(id) : id \in DeviceIds}
\* bodies of the backend's answers to the GET of the device list: no entry,
\* the device, and the device with an entry of 8 characters and a second
\* device
DeviceLists == {EmptyObj} \cup {EntryKey(1) :> Str(id) : id \in DeviceIds} \cup {EntryKey(1) :> Str(id) @@ EntryKey(2) :> Str(<<"0", "0", "1", "A", "2", "B", "3", "C">>) @@ EntryKey(3) :> Str(<<"A", "A", "B", "B", "C", "C", "D", "D", "E", "E", "F", "F">>) : id \in DeviceIds}

\* bodies of the backend's answers to the GET of a device's services
SystemBodies == {EmptyObj, Join(<<"system", "type">>, "-") :> Str(<<"v1">>), Join(<<"system", "id">>, "-") :> Str(<<"0", "0", "1", "a", "2", "b", "3", "c", "4", "d", "5", "e">>) @@ <<"humidity">> :> Str(<<"v2">>)}
ZoneBodies == {EmptyObj, <<"mode">> :> Str(<<"v2">>), <<"mode">> :> Str(<<"v1">>) @@ Join(<<"mode", "deadline">>, "-") :> Str(<<"v1">>)}

Last(s) == s[Len(s)]

\* what the backend or the transport may answer to the request of log entry e
ResponsesFor(e) ==
  CASE e.fn = "_get_session_token" ->
         {RequestException, Response(INTERNAL_SERVER_ERROR, "", NoToken, EmptyObj), Response(OK, "FAILED", NoToken, EmptyObj), Response(OK, "SUCCESS", FreshSession(e.sess), EmptyObj)}
    [] e.fn = "_get_api_token" ->
         {RequestException, Response(INTERNAL_SERVER_ERROR, "", NoToken, EmptyObj), Response(OK, "", NoToken, EmptyObj), Response(OK, "", ApiToken(e.sess), EmptyObj)}
    [] e.fn = "_request_get" ->
         {RequestException, Response(UNAUTHORIZED, "", NoToken, EmptyObj), Response(INTERNAL_SERVER_ERROR, "", NoToken, EmptyObj)}
           \cup {Response(OK, "", NoToken, b) : b \in (IF Last(e.url) = "/services/System" THEN SystemBodies ELSE IF Last(e.url) = "devices/" THEN DeviceLists ELSE ZoneBodies)}
    [] e.fn = "_request_put" ->
         {RequestException, Response(UNAUTHORIZED, "", NoToken, EmptyObj), Response(INTERNAL_SERVER_ERROR, "", NoToken, EmptyObj), Response(OK, "", NoToken, EmptyObj), Response(NO_CONTENT, "", NoToken, EmptyObj)}

NoArgs == [d |-> 0, id |-> <<>>, prop |-> "", number |-> 0, value |-> None]
Idle == [op |-> "idle", args |-> NoArgs, trace |-> <<>>]

World(trace) == [api |-> api, devs |-> devs, credentials |-> credentials, trace |-> trace, log |-> <<>>]

Run(op, args, w) ==
  CASE op = "connect" -> connect(w)
    [] op = "Device" -> Device__init__(w, args.id)
    [] op = "fetch" -> fetch(w, args.d)
    [] op = "push" -> push(w, args.d)
    [] op = "update" -> update(w, args.d)
    [] op = "setter" -> setter(w, args.d, args.prop, args.value)
    [] op = "set_time_profile_name" -> set_time_profile_name(w, args.d, args.number, args.value)
    [] op = "set_time_profile_data" -> set_time_profile_data(w, args.d, args.number, args.value)
    [] op = "get_time_profile_name" -> get_time_profile_name(w, args.d, args.number)
    [] op = "get_time_profile_data" -> get_time_profile_data(w, args.d, args.number)
    [] op = "get_devices" -> get_devices(w)
    [] op = "get_device" -> get_device(w, args.id)

\* the pending operation on the responses received so far
Outcome == Run(pending.op, pending.args, World(pending.trace))
Busy == pending.op # "idle"
Blocked == Busy /\ Outcome.st = "blocked"
Done == Busy /\ Outcome.st # "blocked"

\* The caller holds an API object: one made by API(), or the one the factory
\* call API.connect() returned, which is an object whose connect() succeeded
\* (the factory returns None, and so no object, when it fails).
Connected == [API__init__ EXCEPT !._session_token = SessionToken("s1"), !._api_token = ApiToken(SessionToken("s1")), !._auth_url = "auth_url", !._api_url = "api_url"]

Init ==
  /\ api \in {API__init__, Connected}
  /\ devs = <<>>
  /\ credentials \in {"ok", "missing"}
  /\ pending = Idle
  /\ calls = 0
  /\ exchanges = 0

Call(op, args) ==
  /\ calls < MaxCalls
  /\ pending' = [op |-> op, args |-> args, trace |-> <<>>]
  /\ calls' = calls + 1
  /\ UNCHANGED <<api, devs, credentials, exchanges>>

CallConnect == ~Busy /\ Call("connect", NoArgs)

CallDevice == \E id \in DeviceIds : ~Busy /\ Call("Device", [NoArgs EXCEPT !.id = id])

CallFetch == \E d \in DOMAIN devs : ~Busy /\ Call("fetch", [NoArgs EXCEPT !.d = d])

CallPush == \E d \in DOMAIN devs : ~Busy /\ Call("push", [NoArgs EXCEPT !.d = d])

CallUpdate == \E d \in DOMAIN devs : ~Busy /\ Call("update", [NoArgs EXCEPT !.d = d])

CallSetter == \E d \in DOMAIN devs, prop \in ZoneSetters, value \in Values : ~Busy /\ Call("setter", [NoArgs EXCEPT !.d = d, !.prop = prop, !.value = value])

CallSetTimeProfileName == \E d \in DOMAIN devs, number \in Numbers, value \in Values : ~Busy /\ Call("set_time_profile_name", [NoArgs EXCEPT !.d = d, !.number = number, !.value = value])

CallSetTimeProfileData == \E d \in DOMAIN devs, number \in Numbers, value \in Values : ~Busy /\ Call("set_time_profile_data", [NoArgs EXCEPT !.d = d, !.number = number, !.value = value])

CallGetTimeProfileName == \E d \in DOMAIN devs, number \in Numbers : ~Busy /\ Call("get_time_profile_name", [NoArgs EXCEPT !.d = d, !.number = number])

CallGetTimeProfileData == \E d \in DOMAIN devs, number \in Numbers : ~Busy /\ Call("get_time_profile_data", [NoArgs EXCEPT !.d = d, !.number = number])

CallGetDevices == ~Busy /\ Call("get_devices", NoArgs)

CallGetDevice == \E id \in LookupIds : ~Busy /\ Call("get_device", [NoArgs EXCEPT !.id = id])

\* the public flags AUTO_RECONNECT and AUTOSET are assigned by the caller
SetAutoReconnect ==
  /\ ~Busy
  /\ calls < MaxCalls
  /\ api' = [api EXCEPT !.AUTO_RECONNECT = ~@]
  /\ calls' = calls + 1
  /\ UNCHANGED <<devs, credentials, pending, exchanges>>

SetAutoset ==
  /\ ~Busy
  /\ calls < MaxCalls
  /\ \E d \in DOMAIN devs : devs' = [devs EXCEPT ![d].AUTOSET = ~@]
  /\ calls' = calls + 1
  /\ UNCHANGED <<api, credentials, pending, exchanges>>

\* the credentials file is written or removed
ChangeCredentials ==
  /\ ~Busy
  /\ calls < MaxCalls
  /\ credentials' = IF credentials = "ok" THEN "missing" ELSE "ok"
  /\ calls' = calls + 1
  /\ UNCHANGED <<api, devs, pending, exchanges>>

\* the backend answers the exchange the operation is blocked on
Respond ==
  /\ Blocked
  /\ exchanges < MaxExchanges
  /\ \E r \in ResponsesFor(Last(Outcome.w.log)) : pending' = [pending EXCEPT !.trace = Append(@, r)]
  /\ exchanges' = exchanges + 1
  /\ UNCHANGED <<api, devs, credentials, calls>>

\* the operation returns (or raises) to the caller
Return ==
  /\ Done
  /\ api' = Outcome.w.api
  /\ devs' = Outcome.w.devs
  /\ pending' = Idle
  /\ UNCHANGED <<credentials, calls, exchanges>>

Next ==
  \/ CallConnect
  \/ CallDevice
  \/ CallFetch
  \/ CallPush
  \/ CallUpdate
  \/ CallSetter
  \/ CallSetTimeProfileName
  \/ CallSetTimeProfileData
  \/ CallGetTimeProfileName
  \/ CallGetTimeProfileData
  \/ SetAutoReconnect
  \/ SetAutoset
  \/ ChangeCredentials
  \/ Respond
  \/ Return

Spec == Init /\ [][Next]_vars

\* a caller that works with the devices of the account: it connects and
\* asks the client for its devices
NextRegistry ==
  \/ CallConnect
  \/ CallGetDevices
  \/ CallGetDevice
  \/ SetAutoReconnect
  \/ ChangeCredentials
  \/ Respond
  \/ Return

SpecRegistry == Init /\ [][NextRegistry]_vars

\* a caller that only lists the devices, with a backend that answers every
\* exchange it is given (up to MaxExchanges answers) and a call that
\* returns once it is done
NextRequests ==
  \/ CallGetDevices
  \/ SetAutoReconnect
  \/ ChangeCredentials
  \/ Respond
  \/ Return

\* Weak fairness of Return and of Respond, written with the conditions that
\* enable them: Return is enabled exactly when the operation is done and
\* ends that, Respond exactly when the operation is blocked on an exchange
\* the backend may still answer, and it can be taken MaxExchanges times only.
\* So WF_vars(Return) is []<>~Done and WF_vars(Respond) is
\* []<>~(Blocked /\ exchanges < MaxExchanges).
Fairness == []<>~Done /\ []<>~(Blocked /\ exchanges < MaxExchanges)

SpecRequests == Init /\ [][NextRequests]_vars /\ Fairness

----------------------------------------------------------------------------
(* What a call has done so far: its log *)

Log == Outcome.w.log
IsRequest(e) == e.fn \in {"_request_get", "_request_put"}
IsPut(e, service) == e.fn = "_request_put" /\ Last(e.url) = service
Succeeded(e) == e.resp.exc = "" /\ e.resp.status_code \in {OK, NO_CONTENT}
\* the calls of _request_get/_request_put made by the operation itself, and
\* for each the part of the log it spans (up to the next such call)
TopLevel(log) == {i \in DOMAIN log : IsRequest(log[i]) /\ log[i].depth = 0}
Span(log, i) == {j \in i..Len(log) : \A k \in TopLevel(log) : k <= i \/ k > j}
Connects(log, i) == Cardinality({j \in Span(log, i) : log[j].fn = "connect"})
Requests(log, i) == Cardinality({j \in Span(log, i) : IsRequest(log[j])})

\* the device an operation is called on, before the call and as the call leaves it
Pre == devs[pending.args.d]
Post == Outcome.w.devs[pending.args.d]

----------------------------------------------------------------------------
(* Claims *)

\* C1: a call of _request_get/_request_put with AUTO_RECONNECT enabled whose
\* first response is 401 makes exactly one reauthentication attempt and at
\* most one retry of the request, whatever the retry is answered.
C1_OneReauthOneRetry ==
  Busy => \A i \in TopLevel(Log) :
    (api.AUTO_RECONNECT /\ Log[i].resp.status_code = UNAUTHORIZED)
      => (Connects(Log, i) = 1 /\ Requests(Log, i) <= 2)

\* C2: when push() returns without anything raised and the PUT of a group
\* failed, that group's change set is what it was before the push.
C2_FailedPutKeepsChangeSet ==
  (Done /\ pending.op = "push" /\ Outcome.ret = TRUE) =>
    /\ ((\E i \in DOMAIN Log : IsPut(Log[i], "/services/System")) /\ ~(\E i \in DOMAIN Log : IsPut(Log[i], "/services/System") /\ Succeeded(Log[i])))
         => Post._system_changed = Pre._system_changed
    /\ ((\E i \in DOMAIN Log : IsPut(Log[i], "/services/Zone")) /\ ~(\E i \in DOMAIN Log : IsPut(Log[i], "/services/Zone") /\ Succeeded(Log[i])))
         => Post._zone_changed = Pre._zone_changed

\* C3: in connect() the token request is sent only after the auth request of
\* the same connect() was answered 200 with status SUCCESS and a token; when
\* the session-token step fails no token request is sent and connect()
\* returns None.
SessionGranted(e) == e.fn = "_get_session_token" /\ e.resp.exc = "" /\ e.resp.status_code = OK /\ e.resp.status = "SUCCESS" /\ e.resp.token # NoToken
C3_TokenOnlyAfterSession ==
  (Busy /\ pending.op = "connect") =>
    /\ \A j \in DOMAIN Log : Log[j].fn = "_get_api_token" => \E k \in 1..(j - 1) : SessionGranted(Log[k])
    /\ (Done /\ ~(\E k \in DOMAIN Log : SessionGranted(Log[k])))
         => (Outcome.st = "ok" /\ Outcome.ret = FALSE /\ ~(\E j \in DOMAIN Log : Log[j].fn = "_get_api_token"))

\* C4: no GET or PUT of _request_get/_request_put is sent while the client's
\* session token or API token is unset.
C4_NoRequestWithoutTokens ==
  Busy => \A i \in DOMAIN Log : IsRequest(Log[i]) => (Log[i].auth # NoToken /\ Log[i].sess # NoToken)

\* C5: whenever control is with the caller, a stored API token was issued for
\* the stored session token, and no session token is stored without one.
C5_SessionIsWhole ==
  ~Busy =>
    /\ api._api_token # NoToken => api._api_token = ApiToken(api._session_token)
    /\ api._session_token # NoToken => api._api_token # NoToken

\* C6: with AUTOSET off a setter (a zone property, set_time_profile_name or
\* set_time_profile_data with an index in 1..10) adds exactly one entry to
\* its group's change set, under the dash-separated name fetch() reads the
\* attribute by, and leaves the other group's change set alone.
SetAttribute == IF pending.op = "setter" THEN SetterAttr(pending.args.prop) ELSE TimeProfileAttr(pending.args.number, IF pending.op = "set_time_profile_name" THEN "name" ELSE "data")
IsSetterCall == pending.op = "setter" \/ (pending.op \in {"set_time_profile_name", "set_time_profile_data"} /\ pending.args.number \in 1..10)
C6_SetterRecordsWireKey ==
  (Done /\ IsSetterCall /\ ~Pre.AUTOSET) =>
    /\ Outcome.st = "ok"
    /\ IF pending.op = "setter"
       THEN /\ DOMAIN Post._zone_changed = DOMAIN Pre._zone_changed \cup {Replace(SetAttribute, "_", "-")}
            /\ Post._system_changed = Pre._system_changed
       ELSE /\ DOMAIN Post._system_changed = DOMAIN Pre._system_changed \cup {Replace(SetAttribute, "_", "-")}
            /\ Post._zone_changed = Pre._zone_changed

\* C7: with AUTOSET off, a group's change set holds exactly one entry for
\* each attribute set since it was last cleared, with the value set last (so
\* v1 then v2 leaves one entry holding v2), and no other entry.
EntriesFor(changed, attr) == {k \in DOMAIN changed : Replace(k, "_", "-") = Replace(attr, "_", "-")}
Tracks(changed, hist) ==
  /\ Cardinality(DOMAIN changed) = Cardinality(DOMAIN hist)
  /\ \A attr \in DOMAIN hist : Cardinality(EntriesFor(changed, attr)) = 1 /\ \A k \in EntriesFor(changed, attr) : changed[k] = hist[attr]
Tracked(dev) == Tracks(dev._zone_changed, dev.hist_zone) /\ Tracks(dev._system_changed, dev.hist_system)
C7_OneEntryPerAttribute ==
  /\ ~Busy => \A d \in DOMAIN devs : ~devs[d].AUTOSET => Tracked(devs[d])
  /\ (Done /\ IsSetterCall /\ ~Pre.AUTOSET) => Tracked(Post)
C7_Witness ==
  /\ Done /\ pending.op = "setter" /\ ~Pre.AUTOSET
  /\ pending.args.value = Str(<<"v2">>)
  /\ \E k \in EntriesFor(Pre._zone_changed, SetAttribute) : Pre._zone_changed[k] = Str(<<"v1">>)
  /\ Cardinality(DOMAIN Post._zone_changed) = 1
  /\ \A k \in DOMAIN Post._zone_changed : Post._zone_changed[k] = Str(<<"v2">>)

\* C8: after a push() whose PUTs all succeeded (each group's PUT was answered
\* 200 or 204, at once or on the retry after a reauthentication) both change
\* sets are empty; a push() with both change sets empty sends nothing and
\* returns True.
C8_PushFlushes ==
  (Done /\ pending.op = "push") =>
    /\ (\A service \in {"/services/System", "/services/Zone"} :
          (\E i \in DOMAIN Log : IsPut(Log[i], service)) => (\E i \in DOMAIN Log : IsPut(Log[i], service) /\ Succeeded(Log[i])))
         => (Post._system_changed = EmptyObj /\ Post._zone_changed = EmptyObj)
    /\ (Pre._system_changed = EmptyObj /\ Pre._zone_changed = EmptyObj)
         => (Log = <<>> /\ Outcome.st = "ok" /\ Outcome.ret = TRUE)
C8_Witness ==
  /\ Done /\ pending.op = "push"
  /\ Pre._zone_changed # EmptyObj
  /\ Len(Log) = 1 /\ \A i \in DOMAIN Log : Log[i].fn = "_request_put" /\ Succeeded(Log[i])
  /\ Post._system_changed = EmptyObj /\ Post._zone_changed = EmptyObj

\* C9: the body of a PUT of push() holds exactly the wire keys of the
\* attributes set since the group's last flush, each with its latest value.
WireBody(hist) == [k \in {Replace(attr, "_", "-") : attr \in DOMAIN hist} |-> hist[CHOOSE attr \in DOMAIN hist : Replace(attr, "_", "-") = k]]
C9_PutBodyIsSetKeys ==
  (Busy /\ pending.op = "push") => \A i \in DOMAIN Log :
    /\ IsPut(Log[i], "/services/System") => Log[i].data = WireBody(Pre.hist_system)
    /\ IsPut(Log[i], "/services/Zone") => Log[i].data = WireBody(Pre.hist_zone)

\* C10: push() sends the Zone change set to the endpoint fetch() reads the
\* zone from, devices/1.<id>/services/Zone, and the System change set to
\* devices/<id>/services/System.
C10_PushUsesFetchEndpoints ==
  (Busy /\ pending.op \in {"push", "update"}) => \A i \in DOMAIN Log :
    /\ IsPut(Log[i], "/services/System") => Log[i].url = <<api._api_url>> \o SystemPath(Pre)
    /\ IsPut(Log[i], "/services/Zone") => Log[i].url = <<api._api_url>> \o ZoneFetchPath(Pre)
    /\ IsPut(Log[i], "/services/Zone") => \A j \in DOMAIN Log : (Log[j].fn = "_request_get" /\ Last(Log[j].url) = "/services/Zone") => Log[j].url = Log[i].url

Reconnected == \E k \in DOMAIN Log : Log[k].fn = "_get_api_token" /\ Log[k].resp.exc = "" /\ Log[k].resp.status_code = OK /\ Log[k].resp.token # NoToken
C12_FailedReauthReturnsNone ==
  (Done /\ pending.op = "get_devices" /\ api.AUTO_RECONNECT /\ Log # <<>> /\ Log[1].resp.status_code = UNAUTHORIZED /\ ~Reconnected) =>
    /\ Outcome.st = "ok" /\ Outcome.ret = <<>>
    /\ Requests(Log, 1) = 1

\* C13: a get_devices() whose device-list GET succeeds returns exactly one
\* handle per entry of that response with a deviceIdentifier of 12
\* characters, on a first call and on a repeated one.
IsListGet(e) == e.fn = "_request_get" /\ Last(e.url) = "devices/" /\ e.resp.exc = "" /\ e.resp.status_code = OK
ValidEntries(obj) == {i \in 1..EntryCount(obj) : Len(Mac(obj, i)) = 12}
C13_OneHandlePerEntry ==
  (Done /\ pending.op = "get_devices") => \A k \in DOMAIN Log : IsListGet(Log[k]) =>
    /\ Outcome.st = "ok"
    /\ Len(Outcome.ret) = Cardinality(ValidEntries(Log[k].resp.obj))

\* C14: for a device of the backend's device list, get_device() with the
\* colon-separated and with the plain identifier returns, in every call, the
\* same handle, whose device_id is the normalized identifier.
Listed(obj, deviceID) == \E i \in ValidEntries(obj) : Upper(Mac(obj, i)) = deviceID
C14_SameHandle ==
  /\ (Done /\ pending.op = "get_device") => \A k \in DOMAIN Log : (IsListGet(Log[k]) /\ Listed(Log[k].resp.obj, Normalize(pending.args.id))) =>
        /\ Outcome.st = "ok" /\ Outcome.ret # 0
        /\ device_id(Outcome.w.devs[Outcome.ret]) = Normalize(pending.args.id)
        /\ \A h \in DOMAIN Outcome.w.devs : Outcome.w.devs[h].hist_returned = Normalize(pending.args.id) => h = Outcome.ret

\* C15: after a fetch() every attribute of a group whose wire key is in the
\* group's successful response holds the value of the response, and every
\* attribute whose key the response leaves out holds the value it held
\* before the fetch.
IsServiceGet(e, service) == e.fn = "_request_get" /\ Last(e.url) = service /\ e.resp.exc = "" /\ e.resp.status_code = OK
Merged(before, after, obj) == \A attr \in DOMAIN before : after[attr] = IF Replace(attr, "_", "-") \in DOMAIN obj THEN obj[Replace(attr, "_", "-")] ELSE before[attr]
C15_PartialMerge ==
  (Done /\ pending.op = "fetch") => \A k \in DOMAIN Log :
    /\ IsServiceGet(Log[k], "/services/System") => Merged(Pre._system, Post._system, Log[k].resp.obj)
    /\ IsServiceGet(Log[k], "/services/Zone") => Merged(Pre._zone, Post._zone, Log[k].resp.obj)
C15_Witness ==
  /\ Done /\ pending.op = "fetch"
  /\ \E k \in DOMAIN Log : IsServiceGet(Log[k], "/services/System") /\ DOMAIN Log[k].resp.obj = {<<"humidity">>, Join(<<"system", "id">>, "-")}
  /\ Pre._system[Join(<<"system", "type">>, "_")] = Str(<<"v1">>) /\ Pre._system[<<"humidity">>] = None
  /\ Post._system[Join(<<"system", "type">>, "_")] = Str(<<"v1">>) /\ Post._system[<<"humidity">>] = Str(<<"v2">>)

\* C16: with AUTOSET on, a setter call sends, before it returns, a PUT that
\* carries the change it recorded (given a client that has loaded its
\* URLs); with AUTOSET off a setter call sends no request.
C16_AutosetPushes ==
  (Done /\ IsSetterCall) =>
    IF Pre.AUTOSET
    THEN api._api_url # "None" =>
           /\ Outcome.st = "ok"
           /\ \E k \in DOMAIN Log :
                /\ IsPut(Log[k], IF pending.op = "setter" THEN "/services/Zone" ELSE "/services/System")
                /\ EntriesFor(Log[k].data, SetAttribute) # {}
                /\ pending.op # "set_time_profile_data" => \A key \in EntriesFor(Log[k].data, SetAttribute) : Log[k].data[key] = pending.args.value
    ELSE Log = <<>>

\* C17: the identity of a handle is fixed at construction: Device(id) leaves
\* a handle whose device_id is the uppercase id, fetch, push, update and the
\* setters leave device_id as they found it, and every request of the
\* handle is addressed to that identifier.
Addressee(url) == SubSeq(url, Len(url) - 12, Len(url) - 1)
Constructed == Outcome.w.devs[Len(devs) + 1]
C17_IdentityFixed ==
  /\ (Done /\ pending.op = "Device" /\ Outcome.st = "ok") =>
        /\ device_id(Constructed) = Upper(pending.args.id)
        /\ \A k \in DOMAIN Log : IsRequest(Log[k]) => Addressee(Log[k].url) = Upper(pending.args.id)
  /\ (Done /\ (pending.op \in {"fetch", "push", "update"} \/ IsSetterCall)) =>
        /\ device_id(Post) = device_id(Pre)
        /\ \A k \in DOMAIN Log : IsRequest(Log[k]) => Addressee(Log[k].url) = device_id(Pre)

\* C18: update() calls push() first and fetch() only if push() returned
\* True; it returns True exactly when both did; when push() returned False
\* no GET is issued and the attributes are as they were.
PushOfUpdate == push(World(pending.trace), pending.args.d)
FetchOfUpdate == fetch(PushOfUpdate.w, pending.args.d)
C18_UpdateShortCircuits ==
  (Done /\ pending.op = "update") =>
    /\ PushOfUpdate.st = "ok" /\ Outcome.st = "ok"
    /\ \A j, k \in DOMAIN Log : (Log[j].fn = "_request_get" /\ Log[k].fn = "_request_put") => k < j
    /\ ~PushOfUpdate.ret =>
          /\ Outcome.ret = FALSE
          /\ \A k \in DOMAIN Log : Log[k].fn # "_request_get"
          /\ Post._system = Pre._system /\ Post._zone = Pre._zone
    /\ PushOfUpdate.ret =>
          /\ FetchOfUpdate.st = "ok"
          /\ Outcome.ret = FetchOfUpdate.ret
          /\ Outcome.w = FetchOfUpdate.w
C18_Witness ==
  /\ Done /\ pending.op = "update"
  /\ ~PushOfUpdate.ret /\ Outcome.ret = FALSE
  /\ \E k \in DOMAIN Log : Log[k].fn = "_request_put"
  /\ \A k \in DOMAIN Log : Log[k].fn # "_request_get"

\* C19: push() returns False only when a PUT raises out of _request_put;
\* when every PUT returns, also one answered with a failure status or failed
\* by the transport, push() returns True.
SystemOfPush == PushSystem(World(pending.trace), pending.args.d)
PutRaised == SystemOfPush.st = "raise" \/ (SystemOfPush.st = "ok" /\ PushZone(SystemOfPush.w, pending.args.d).st = "raise")
OutOfRange == pending.op \in {"get_time_profile_name", "get_time_profile_data", "set_time_profile_name", "set_time_profile_data"} /\ pending.args.number \notin 1..10
Flagged(d, autoset) == [World(<<>>) EXCEPT !.devs[d].AUTOSET = autoset]
C20_OutOfRangeIsNeutral ==
  /\ (Done /\ OutOfRange) =>
        /\ Outcome.st = "ok" /\ Log = <<>>
        /\ Outcome.w.devs = devs /\ Outcome.w.api = api
        /\ pending.op = "get_time_profile_name" => Outcome.ret = Str(<<>>)
        /\ pending.op = "get_time_profile_data" => Outcome.ret = EmptyList
  /\ \A d \in DOMAIN devs, autoset \in BOOLEAN, number \in Numbers \ (1..10), value \in Values :
        /\ set_time_profile_name(Flagged(d, autoset), d, number, value) = Ok(Flagged(d, autoset), FALSE)
        /\ set_time_profile_data(Flagged(d, autoset), d, number, value) = Ok(Flagged(d, autoset), FALSE)
        /\ get_time_profile_name(Flagged(d, autoset), d, number) = Ok(Flagged(d, autoset), Str(<<>>))
        /\ get_time_profile_data(Flagged(d, autoset), d, number) = Ok(Flagged(d, autoset), EmptyList)
C20_Witness ==
  /\ Done /\ pending.op = "set_time_profile_name" /\ pending.args.number = 11
  /\ Pre._zone_changed # EmptyObj
  /\ Outcome.st = "ok" /\ Log = <<>> /\ Outcome.w.devs = devs

\* C21: set_time_profile_data with an index in 1..10 completes without
\* raising whatever the length of the value, stores the value as a tagged
\* byte-buffer in the System attributes and records exactly one entry for it
\* in the System change set.
DataAttr == TimeProfileAttr(pending.args.number, "data")
C21_DataNeverRejected ==
  (Done /\ pending.op = "set_time_profile_data" /\ pending.args.number \in 1..10) =>
    /\ Outcome.st = "ok"
    /\ Post._system[DataAttr].type = "Buffer"
    /\ ~Pre.AUTOSET => Cardinality(EntriesFor(Post._system_changed, DataAttr)) = 1

\* C22: with AUTOSET off, after any interleaving of setter calls, fetch(),
\* push() and update(), every entry of a group's change set holds the value
\* the local mirror has for its attribute: what the getter returns is what
\* the next push will send.
Mirrors(service, changed) == \A k \in DOMAIN changed, attr \in DOMAIN service : Replace(attr, "_", "-") = Replace(k, "_", "-") => service[attr] = changed[k]
C22_MirrorEqualsChangeSet ==
  ~Busy => \A d \in DOMAIN devs : ~devs[d].AUTOSET => Mirrors(devs[d]._zone, devs[d]._zone_changed) /\ Mirrors(devs[d]._system, devs[d]._system_changed)

\* C23: a fetch() that returns False leaves the System and the Zone
\* attributes as they were before the call, also when only the Zone GET
\* failed; a fetch() never changes a change set.
C23_FailedFetchChangesNothing ==
  (Done /\ pending.op = "fetch") =>
    /\ Outcome.st = "ok"
    /\ Outcome.ret = FALSE => Post._system = Pre._system /\ Post._zone = Pre._zone
    /\ Post._system_changed = Pre._system_changed /\ Post._zone_changed = Pre._zone_changed

\* C24: every call of _request_get/_request_put returns to its caller, with
\* a result or None, when every HTTP exchange completes: whenever
\* get_devices() is over, the GET of the device list it made has returned
\* and has not ended by raising.
ListGet == _request_get(World(pending.trace), <<"devices/">>, 0)
C24_RequestReturns == (Done /\ pending.op = "get_devices") => ListGet.st = "ok"

\* C25: a get_devices() whose device-list GET fails or gives an empty list
\* returns the empty list and leaves the registry of devices as it was,
\* also a registry earlier calls have filled; get_device() then returns
\* None for every identifier.
ListEmpty == \A k \in DOMAIN Log : IsListGet(Log[k]) => Log[k].resp.obj = EmptyObj
C25_FailedListingIsEmpty ==
  (Done /\ pending.op \in {"get_devices", "get_device"} /\ ListEmpty) =>
    /\ Outcome.st = "ok"
    /\ Outcome.ret = IF pending.op = "get_devices" THEN <<>> ELSE 0
    /\ Outcome.w.api._devices = api._devices /\ Outcome.w.devs = devs

====
